---- MODULE Spec2Model ----
(***************************************************************************)
(* Model of tachyon's container cache: the package-level cache map, its    *)
(* last-refresh timestamp and RWMutex, the periodic refresher goroutine    *)
(* (StartCacheRefresh), the bulk listing GetContainers, the per-key lookup *)
(* GetContainerByID, the Assembler PopulateContainer and the UI's          *)
(* refreshTable entry point.                                               *)
(*                                                                         *)
(* Time is kept relative: sinceRefreshed is time.Since(lastRefreshed) in   *)
(* seconds, saturated at the largest threshold the code compares it with.  *)
(* The clock is observed at the ticker's granularity: one Advance step is  *)
(* one ticker period, and it puts a tick into the ticker channel.          *)
(***************************************************************************)
EXTENDS Integers, Sequences, FiniteSets, TLC

\* ------------------------------------------------------------------ constants of the program

TickInterval == 5
ListFresh == 10
GetFresh == 20

\* time.Since(lastRefreshed) saturates here: every comparison of the code
\* gives the same answer for all larger values.
AgeCap == GetFresh

\* the enrichment steps of PopulateContainer, in the order of the code
Adapters ==
    << "OpenFiles", "NetworkUsage", "MountedVolumes", "ExposedPorts",
       "StartCommand", "SecurityProfiles", "EnvVariables", "ResourceUsage" >>

AdapterError ==
    << "failed to get open files", "failed to get network usage",
       "failed to get mounted volumes", "failed to get exposed ports",
       "failed to get start command", "failed to get security profiles",
       "failed to get environment variables", "failed to get resource usage" >>

AllFields == { Adapters[i] : i \in 1..Len(Adapters) }

\* ------------------------------------------------------------------ the modelled world

\* process ids the runtime may report, and the status strings it may give them
Pids == {100, 200}
Statuses == {"running"}

\* the containers that run throughout (a node always runs its infra containers)
AlwaysRunning == {100}

\* the adapters that may fail in a PopulateContainer call of the model
FailPoints == {1, 5}

\* the goroutines: the periodic refresher and the UI event loop
Refresher == "refresher"
Callers == {"ui"}
Tasks == {Refresher} \cup Callers

None == "none"

\* ------------------------------------------------------------------ strconv

Digits == << "0", "1", "2", "3", "4", "5", "6", "7", "8", "9" >>

DigitSet == { Digits[i] : i \in 1..Len(Digits) }

DigitValue(ch) == (CHOOSE i \in 1..Len(Digits) : Digits[i] = ch) - 1

RECURSIVE Itoa(_)
\* strconv.Itoa for n >= 0: the decimal digits, most significant first
Itoa(n) == IF n < 10 THEN << Digits[n + 1] >>
           ELSE Append(Itoa(n \div 10), Digits[(n % 10) + 1])

RECURSIVE AtoiValue(_)
AtoiValue(s) == IF s = << >> THEN 0
                ELSE 10 * AtoiValue(SubSeq(s, 1, Len(s) - 1)) + DigitValue(s[Len(s)])

\* strconv.Atoi on an unsigned string: [ok, n]
Atoi(s) == IF Len(s) > 0 /\ \A i \in 1..Len(s) : s[i] \in DigitSet
           THEN [ok |-> TRUE, n |-> AtoiValue(s)]
           ELSE [ok |-> FALSE, n |-> 0]

\* the pid strings a caller passes to GetContainerByID: the pid of the
\* container that comes and goes, and a string that is no number
PidArgs == { Itoa(p) : p \in Pids \ AlwaysRunning } \cup { << "x" >> }

\* ------------------------------------------------------------------ Container

\* Container{}: the zero value
ZeroContainer == [PID |-> 0, Status |-> "", fields |-> {}]

\* a record as decoded from the runc listing: identity and lifecycle only
BareContainer(p, s) == [PID |-> p, Status |-> s, fields |-> {}]

EmptyMap == [k \in {} |-> ZeroContainer]

MapPut(m, k, v) == [x \in (DOMAIN m) \cup {k} |-> IF x = k THEN v ELSE m[x]]

\* PopulateContainer on c, where adapter number failAt returns an error
\* (failAt = 0: none does). The adapters before failAt have filled their field.
PopulateContainer(c, failAt) ==
    IF failAt = 0
    THEN [c |-> [c EXCEPT !.fields = AllFields], err |-> "nil"]
    ELSE [c |-> [c EXCEPT !.fields = { Adapters[i] : i \in 1..(failAt - 1) }],
          err |-> AdapterError[failAt]]

\* the listings the runtime can be in: each pid absent or present with a status
Listings == UNION { [S -> Statuses] : S \in { T \in SUBSET Pids : AlwaysRunning \subseteq T } }

RECURSIVE SortedPids(_)
SortedPids(S) == IF S = {} THEN << >>
                 ELSE LET m == CHOOSE x \in S : \A y \in S : x <= y
                      IN << m >> \o SortedPids(S \ {m})

\* json.Unmarshal of the listing: one bare record per listed container
Decode(listing) ==
    LET ps == SortedPids(DOMAIN listing)
    IN [i \in 1..Len(ps) |-> BareContainer(ps[i], listing[ps[i]])]

\* ------------------------------------------------------------------ state

VARIABLES
    containerCache,   \* map[string]Container: pid string -> record
    sinceRefreshed,   \* time.Since(lastRefreshed), saturated at AgeCap
    cacheMutex,       \* sync.RWMutex: [writer: a task or None, readers: set of tasks]
    tickC,            \* ticker.C holds a tick (a channel of capacity one)
    runc,             \* what "runc list" would print now: pid -> status
    pc,               \* per task: its position in the code
    op,               \* per task: the entry point it is running
    populate,         \* per task: GetContainers' parameter
    containers,       \* per task: GetContainers' slice (discovered or snapshot)
    idx,              \* per task: loop index into containers
    pid,              \* per task: GetContainerByID's parameter
    container,        \* per task: GetContainerByID's container (line 111)
    exists,           \* per task: GetContainerByID's exists (line 111)
    err,              \* per task: the error of the call in progress, "nil" if none
    ret,              \* per task: the Container a finished GetContainerByID returned
    disc,             \* per task: runc invocations made by the current entry point
    wrote,            \* per task: the current GetContainers call wrote map or timestamp
    asmFailed,        \* per task: PopulateContainer failed in the current GetContainers call
    committed,        \* the map as the last completed locked write left it
    sinceDisc,        \* time since a GetContainers call that ran runc returned (saturated)
    discOk,           \* that call returned without an error
    asm,              \* one PopulateContainer call taken alone: its adapters and its result
    lsof,             \* one run of getOpenFiles' parser: its input text and its result
    netdev            \* one run of getContainerNetworkUsage's parser: input and result

shared == << containerCache, sinceRefreshed, cacheMutex, tickC, runc >>
gcLocals == << populate, containers, idx, err, disc, wrote, asmFailed >>
history == << committed, sinceDisc, discOk >>
gbLocals == << pid, container, exists, ret >>
\* the functions checked on their own
pure == << asm, lsof, netdev >>
vars == << containerCache, sinceRefreshed, cacheMutex, tickC, runc, pc, op,
           populate, containers, idx, pid, container, exists, err, ret,
           disc, wrote, asmFailed, committed, sinceDisc, discOk, asm, lsof, netdev >>

\* no input given to a function checked on its own
Idle == [in |-> << >>, done |-> FALSE, out |-> << >>]

Unlocked == [writer |-> None, readers |-> {}]

\* a panic in any goroutine ends the process
Crashed == \E t \in Tasks : pc[t] = "panic"

\* sync.RWMutex: Lock waits for the writer and all readers, RLock for the writer
CanLock == cacheMutex.writer = None /\ cacheMutex.readers = {}
CanRLock == cacheMutex.writer = None

InitCache ==
    /\ containerCache = EmptyMap
    /\ sinceRefreshed = AgeCap
    /\ cacheMutex = Unlocked
    /\ tickC = FALSE
    /\ runc \in Listings
    /\ pc = [t \in Tasks |-> IF t = Refresher THEN "tk_wait" ELSE "idle"]
    /\ op = [t \in Tasks |-> IF t = Refresher THEN "tick" ELSE None]
    /\ populate = [t \in Tasks |-> FALSE]
    /\ containers = [t \in Tasks |-> << >>]
    /\ idx = [t \in Tasks |-> 0]
    /\ pid = [t \in Tasks |-> << >>]
    /\ container = [t \in Tasks |-> ZeroContainer]
    /\ exists = [t \in Tasks |-> FALSE]
    /\ err = [t \in Tasks |-> "nil"]
    /\ ret = [t \in Tasks |-> ZeroContainer]
    /\ disc = [t \in Tasks |-> 0]
    /\ wrote = [t \in Tasks |-> FALSE]
    /\ asmFailed = [t \in Tasks |-> FALSE]
    /\ committed = EmptyMap
    /\ sinceDisc = ListFresh
    /\ discOk = TRUE

Init == InitCache /\ asm = Idle /\ lsof = Idle /\ netdev = Idle

\* ------------------------------------------------------------------ the environment

\* one ticker period passes: the clock moves on and the ticker sends a tick
\* (dropped by the ticker when the channel still holds the last one)
Advance ==
    /\ ~Crashed
    /\ sinceRefreshed' = IF sinceRefreshed + TickInterval > AgeCap THEN AgeCap
                         ELSE sinceRefreshed + TickInterval
    /\ tickC' = TRUE
    /\ sinceDisc' = IF sinceDisc + TickInterval >= ListFresh THEN ListFresh
                    ELSE sinceDisc + TickInterval
    /\ discOk' = (discOk \/ sinceDisc + TickInterval >= ListFresh)
    /\ UNCHANGED << containerCache, cacheMutex, runc, pc, op, gcLocals, gbLocals,
                    committed >>
    /\ UNCHANGED pure

\* containers start or stop
EnvChange ==
    /\ ~Crashed
    /\ \E l \in Listings : l # runc /\ runc' = l
    /\ UNCHANGED << containerCache, sinceRefreshed, cacheMutex, tickC, pc, op,
                    gcLocals, gbLocals, history >>
    /\ UNCHANGED pure

\* ------------------------------------------------------------------ GetContainers

\* the call: the locals of a fresh invocation
CallGetContainers(t, p) ==
    /\ pc' = [pc EXCEPT ![t] = "gc_check"]
    /\ populate' = [populate EXCEPT ![t] = p]
    /\ containers' = [containers EXCEPT ![t] = << >>]
    /\ idx' = [idx EXCEPT ![t] = 0]
    /\ err' = [err EXCEPT ![t] = "nil"]
    /\ wrote' = [wrote EXCEPT ![t] = FALSE]
    /\ asmFailed' = [asmFailed EXCEPT ![t] = FALSE]

\* a freshness test against the wrong constant
IsFreshShort(age) == age < TickInterval

\* line 152: the freshness test
IsFresh(age) == age < ListFresh

\* a GetContainers that takes the exclusive lock before it runs runc
GC_CheckLocking(t) ==
    /\ pc[t] = "gc_check" /\ ~Crashed
    /\ IF IsFresh(sinceRefreshed)
       THEN /\ pc' = [pc EXCEPT ![t] = "gc_rlock"]
            /\ UNCHANGED cacheMutex
       ELSE /\ CanLock
            /\ cacheMutex' = [cacheMutex EXCEPT !.writer = t]
            /\ pc' = [pc EXCEPT ![t] = "gc_runc"]
    /\ UNCHANGED << containerCache, sinceRefreshed, tickC, runc, op, gcLocals,
                    gbLocals, history >>
    /\ UNCHANGED pure

\* lines 95-100, 141-144, 189-195: t is inside a locked section that assigns
\* lastRefreshed
Writing(t) ==
    cacheMutex.writer = t /\ pc[t] \in {"tk_merge", "gb_write", "gc_write"}

\* lines 115, 152: time.Since(lastRefreshed) is evaluated without the lock. A
\* read that overlaps another task's assignment of lastRefreshed is a data
\* race: it yields the age of the value before or of the value after it.
ReadLastRefreshed(t) ==
    {sinceRefreshed} \cup (IF \E w \in Tasks \ {t} : Writing(w) THEN {0} ELSE {})

\* line 152: lastRefreshed is read without the lock
GC_Check(t) ==
    /\ pc[t] = "gc_check" /\ ~Crashed
    /\ \E age \in ReadLastRefreshed(t) :
          pc' = [pc EXCEPT ![t] = IF IsFresh(age) THEN "gc_rlock" ELSE "gc_runc"]
    /\ UNCHANGED << shared, op, gcLocals, gbLocals, history >>
    /\ UNCHANGED pure

\* a snapshot that does not take the read lock
GC_NoRLock(t) ==
    /\ pc[t] = "gc_rlock" /\ ~Crashed
    /\ pc' = [pc EXCEPT ![t] = "gc_copy"]
    /\ UNCHANGED << shared, op, gcLocals, gbLocals, history >>
    /\ UNCHANGED pure

\* line 153
GC_RLock(t) ==
    /\ pc[t] = "gc_rlock" /\ ~Crashed
    /\ CanRLock
    /\ cacheMutex' = [cacheMutex EXCEPT !.readers = @ \cup {t}]
    /\ pc' = [pc EXCEPT ![t] = "gc_copy"]
    /\ UNCHANGED << containerCache, sinceRefreshed, tickC, runc, op, gcLocals,
                    gbLocals, history >>
    /\ UNCHANGED pure

RECURSIVE Less(_, _)
\* the order of two pid strings, character by character
Less(a, b) ==
    IF a = << >> THEN b # << >>
    ELSE IF b = << >> THEN FALSE
    ELSE IF Head(a) = Head(b) THEN Less(Tail(a), Tail(b))
    ELSE \E i, j \in 1..Len(Digits) : i < j /\ Digits[i] = Head(a) /\ Digits[j] = Head(b)

RECURSIVE KeysInOrder(_)
KeysInOrder(S) ==
    IF S = {} THEN << >>
    ELSE LET k == CHOOSE x \in S : \A y \in S \ {x} : Less(x, y)
         IN << k >> \o KeysInOrder(S \ {k})

\* the values of m as a range loop collects them. Go leaves the order of the
\* loop open; the slice is taken in the order of the keys, since nothing that
\* reads the slice depends on the order (records of equal pid in it are equal).
Values(m) ==
    LET ks == KeysInOrder(DOMAIN m)
    IN [i \in 1..Len(ks) |-> m[ks[i]]]

\* lines 154-159: the range loop copies every entry; the read lock is released
GC_Copy(t) ==
    /\ pc[t] = "gc_copy" /\ ~Crashed
    /\ containers' = [containers EXCEPT ![t] = Values(containerCache)]
    /\ cacheMutex' = [cacheMutex EXCEPT !.readers = @ \ {t}]
    /\ pc' = [pc EXCEPT ![t] = "gc_ret"]
    /\ UNCHANGED << containerCache, sinceRefreshed, tickC, runc, op, populate, idx,
                    err, disc, wrote, asmFailed, gbLocals, history >>
    /\ UNCHANGED pure

\* lines 163-176: what the runc invocation and the decoding can come to
RuncOutcomes ==
    { "ok", "error executing runc command", "runc output is empty",
      "failed to unmarshal the runc output" }

\* a Discovery that takes empty output for a listing of no containers
GC_RuncEmptyAsNone(t) ==
    /\ pc[t] = "gc_runc" /\ ~Crashed
    /\ disc' = [disc EXCEPT ![t] = @ + 1]
    /\ \E o \in RuncOutcomes :
          IF o = "ok" \/ o = "runc output is empty"
          THEN /\ containers' = [containers EXCEPT ![t] =
                                    IF o = "ok" THEN Decode(runc) ELSE << >>]
               /\ idx' = [idx EXCEPT ![t] = 1]
               /\ pc' = [pc EXCEPT ![t] =
                            IF populate[t] /\ o = "ok" /\ Len(Decode(runc)) > 0
                            THEN "gc_populate" ELSE "gc_lock"]
               /\ UNCHANGED << err, sinceDisc, discOk >>
          ELSE /\ containers' = [containers EXCEPT ![t] = << >>]
               /\ err' = [err EXCEPT ![t] = o]
               /\ pc' = [pc EXCEPT ![t] = "gc_ret"]
               /\ sinceDisc' = 0
               /\ discOk' = FALSE
               /\ UNCHANGED idx
    /\ UNCHANGED << shared, op, populate, wrote, asmFailed, gbLocals, committed >>
    /\ UNCHANGED pure

\* lines 163-176: the runc invocation returns
GC_Runc(t) ==
    /\ pc[t] = "gc_runc" /\ ~Crashed
    /\ disc' = [disc EXCEPT ![t] = @ + 1]
    /\ \E o \in RuncOutcomes :
          IF o = "ok"
          THEN /\ containers' = [containers EXCEPT ![t] = Decode(runc)]
               /\ idx' = [idx EXCEPT ![t] = 1]
               /\ pc' = [pc EXCEPT ![t] =
                            IF populate[t] /\ Len(Decode(runc)) > 0
                            THEN "gc_populate" ELSE "gc_lock"]
               /\ UNCHANGED << err, sinceDisc, discOk >>
          ELSE /\ containers' = [containers EXCEPT ![t] = << >>]
               /\ err' = [err EXCEPT ![t] = o]
               /\ pc' = [pc EXCEPT ![t] = "gc_ret"]
               /\ sinceDisc' = 0
               /\ discOk' = FALSE
               /\ UNCHANGED idx
    /\ UNCHANGED << shared, op, populate, wrote, asmFailed, gbLocals, committed >>
    /\ UNCHANGED pure

\* a populate loop that drops PopulateContainer's error and goes on
GC_PopulateIgnoringError(t) ==
    /\ pc[t] = "gc_populate" /\ ~Crashed
    /\ \E failAt \in {0} \cup FailPoints :
          LET r == PopulateContainer(containers[t][idx[t]], failAt)
          IN /\ containers' = [containers EXCEPT ![t][idx[t]] = r.c]
             /\ asmFailed' = [asmFailed EXCEPT ![t] = @ \/ r.err # "nil"]
    /\ idx' = [idx EXCEPT ![t] = IF @ < Len(containers[t]) THEN @ + 1 ELSE 1]
    /\ pc' = [pc EXCEPT ![t] = IF idx[t] < Len(containers[t])
                               THEN "gc_populate" ELSE "gc_lock"]
    /\ UNCHANGED << shared, op, populate, err, disc, wrote, gbLocals, history >>
    /\ UNCHANGED pure

\* lines 180-185: one iteration of the populate loop
GC_Populate(t) ==
    /\ pc[t] = "gc_populate" /\ ~Crashed
    /\ \E failAt \in {0} \cup FailPoints :
          LET r == PopulateContainer(containers[t][idx[t]], failAt)
          IN IF r.err = "nil"
             THEN /\ containers' = [containers EXCEPT ![t][idx[t]] = r.c]
                  /\ idx' = [idx EXCEPT ![t] = IF @ < Len(containers[t]) THEN @ + 1 ELSE 1]
                  /\ pc' = [pc EXCEPT ![t] =
                               IF idx[t] < Len(containers[t])
                               THEN "gc_populate" ELSE "gc_lock"]
                  /\ UNCHANGED << err, asmFailed, sinceDisc, discOk >>
             ELSE /\ containers' = [containers EXCEPT ![t] = << >>]
                  /\ err' = [err EXCEPT ![t] = r.err]
                  /\ asmFailed' = [asmFailed EXCEPT ![t] = TRUE]
                  /\ UNCHANGED idx
                  /\ pc' = [pc EXCEPT ![t] = "gc_ret"]
                  /\ sinceDisc' = 0
                  /\ discOk' = FALSE
    /\ UNCHANGED << shared, op, populate, disc, wrote, gbLocals, committed >>
    /\ UNCHANGED pure

RECURSIVE InsertAll(_, _)
\* the insert loop: every record of cs goes under the string of its own pid
InsertAll(m, cs) ==
    IF cs = << >> THEN m
    ELSE InsertAll(MapPut(m, Itoa(Head(cs).PID), Head(cs)), Tail(cs))

\* a write that takes the lock and keeps the old map
GC_LockKeeping(t) ==
    /\ pc[t] = "gc_lock" /\ ~Crashed
    /\ CanLock
    /\ cacheMutex' = [cacheMutex EXCEPT !.writer = t]
    /\ wrote' = [wrote EXCEPT ![t] = TRUE]
    /\ pc' = [pc EXCEPT ![t] = "gc_write"]
    /\ UNCHANGED << containerCache, sinceRefreshed, tickC, runc, op, populate,
                    containers, idx, err, disc, asmFailed, gbLocals, history >>
    /\ UNCHANGED pure

\* a write that does not wait for the exclusive lock
GC_LockNoWait(t) ==
    /\ pc[t] = "gc_lock" /\ ~Crashed
    /\ cacheMutex' = [cacheMutex EXCEPT !.writer = t]
    /\ containerCache' = EmptyMap
    /\ wrote' = [wrote EXCEPT ![t] = TRUE]
    /\ pc' = [pc EXCEPT ![t] = "gc_write"]
    /\ UNCHANGED << sinceRefreshed, tickC, runc, op, populate, containers, idx,
                    err, disc, asmFailed, gbLocals, history >>
    /\ UNCHANGED pure

\* lines 189-190: the lock is taken and the map replaced by an empty one
GC_Lock(t) ==
    /\ pc[t] = "gc_lock" /\ ~Crashed
    /\ CanLock
    /\ cacheMutex' = [cacheMutex EXCEPT !.writer = t]
    /\ containerCache' = EmptyMap
    /\ wrote' = [wrote EXCEPT ![t] = TRUE]
    /\ pc' = [pc EXCEPT ![t] = "gc_write"]
    /\ UNCHANGED << sinceRefreshed, tickC, runc, op, populate, containers, idx,
                    err, disc, asmFailed, gbLocals, history >>
    /\ UNCHANGED pure

\* lines 191-197: the insert loop, the timestamp, the unlock
GC_Write(t) ==
    /\ pc[t] = "gc_write" /\ ~Crashed
    /\ containerCache' = InsertAll(containerCache, containers[t])
    /\ sinceRefreshed' = 0
    /\ cacheMutex' = [cacheMutex EXCEPT !.writer = None]
    /\ idx' = [idx EXCEPT ![t] = 0]
    /\ pc' = [pc EXCEPT ![t] = "gc_ret"]
    /\ committed' = containerCache'
    /\ sinceDisc' = 0
    /\ discOk' = TRUE
    /\ UNCHANGED << tickC, runc, op, populate, containers, err, disc, wrote,
                    asmFailed, gbLocals >>
    /\ UNCHANGED pure

GetContainers(t) ==
    \/ GC_Check(t) \/ GC_RLock(t) \/ GC_Copy(t) \/ GC_Runc(t)
    \/ GC_Populate(t) \/ GC_Lock(t) \/ GC_Write(t)

\* the locals of a task whose entry point has returned
ResetLocals(t) ==
    /\ populate' = [populate EXCEPT ![t] = FALSE]
    /\ containers' = [containers EXCEPT ![t] = << >>]
    /\ idx' = [idx EXCEPT ![t] = 0]
    /\ err' = [err EXCEPT ![t] = "nil"]
    /\ disc' = [disc EXCEPT ![t] = 0]
    /\ wrote' = [wrote EXCEPT ![t] = FALSE]
    /\ asmFailed' = [asmFailed EXCEPT ![t] = FALSE]

\* ------------------------------------------------------------------ StartCacheRefresh

\* a refresher that starts a refresh for every tick, wherever the last one is
TK_RecvAnytime ==
    /\ ~Crashed
    /\ tickC
    /\ tickC' = FALSE
    /\ disc' = [disc EXCEPT ![Refresher] = 0]
    /\ CallGetContainers(Refresher, TRUE)
    /\ UNCHANGED << containerCache, sinceRefreshed, cacheMutex, runc, op, gbLocals,
                    history >>
    /\ UNCHANGED pure

\* line 92: the goroutine receives a tick; line 93: it calls GetContainers(true)
TK_Recv ==
    /\ pc[Refresher] = "tk_wait" /\ ~Crashed
    /\ tickC
    /\ tickC' = FALSE
    /\ disc' = [disc EXCEPT ![Refresher] = 0]
    /\ CallGetContainers(Refresher, TRUE)
    /\ UNCHANGED << containerCache, sinceRefreshed, cacheMutex, runc, op, gbLocals,
                    history >>
    /\ UNCHANGED pure

\* a refresher that goes on to its merge whatever GetContainers returned
TK_ReturnIgnoringError ==
    /\ pc[Refresher] = "gc_ret" /\ ~Crashed
    /\ pc' = [pc EXCEPT ![Refresher] = "tk_lock"]
    /\ UNCHANGED << shared, op, gcLocals, gbLocals, history >>
    /\ UNCHANGED pure

\* line 94: GetContainers has returned
TK_Return ==
    /\ pc[Refresher] = "gc_ret" /\ ~Crashed
    /\ IF err[Refresher] = "nil"
       THEN /\ pc' = [pc EXCEPT ![Refresher] = "tk_lock"]
            /\ UNCHANGED gcLocals
       ELSE /\ pc' = [pc EXCEPT ![Refresher] = "tk_wait"]
            /\ ResetLocals(Refresher)
    /\ UNCHANGED << shared, op, gbLocals, history >>
    /\ UNCHANGED pure

\* line 95
TK_Lock ==
    /\ pc[Refresher] = "tk_lock" /\ ~Crashed
    /\ CanLock
    /\ cacheMutex' = [cacheMutex EXCEPT !.writer = Refresher]
    /\ pc' = [pc EXCEPT ![Refresher] = "tk_merge"]
    /\ UNCHANGED << containerCache, sinceRefreshed, tickC, runc, op, gcLocals,
                    gbLocals, history >>
    /\ UNCHANGED pure

\* a merge that starts from an empty map
TK_MergeReplacing ==
    /\ pc[Refresher] = "tk_merge" /\ ~Crashed
    /\ containerCache' = InsertAll(EmptyMap, containers[Refresher])
    /\ sinceRefreshed' = 0
    /\ cacheMutex' = [cacheMutex EXCEPT !.writer = None]
    /\ pc' = [pc EXCEPT ![Refresher] = "tk_wait"]
    /\ ResetLocals(Refresher)
    /\ committed' = containerCache'
    /\ UNCHANGED << tickC, runc, op, gbLocals, sinceDisc, discOk >>
    /\ UNCHANGED pure

\* lines 96-100: the merge loop, the timestamp, the unlock; back to the select
TK_Merge ==
    /\ pc[Refresher] = "tk_merge" /\ ~Crashed
    /\ containerCache' = InsertAll(containerCache, containers[Refresher])
    /\ sinceRefreshed' = 0
    /\ cacheMutex' = [cacheMutex EXCEPT !.writer = None]
    /\ pc' = [pc EXCEPT ![Refresher] = "tk_wait"]
    /\ ResetLocals(Refresher)
    /\ committed' = containerCache'
    /\ UNCHANGED << tickC, runc, op, gbLocals, sinceDisc, discOk >>
    /\ UNCHANGED pure

StartCacheRefresh == TK_Recv \/ TK_Return \/ TK_Lock \/ TK_Merge

\* ------------------------------------------------------------------ refreshTable

\* render.go line 49: the UI's refresh calls GetContainers(true)
RT_Call(t) ==
    /\ pc[t] = "idle" /\ ~Crashed
    /\ op' = [op EXCEPT ![t] = "refreshTable"]
    /\ disc' = [disc EXCEPT ![t] = 0]
    /\ CallGetContainers(t, TRUE)
    /\ UNCHANGED << shared, gbLocals, history >>
    /\ UNCHANGED pure

\* render.go lines 50-75: panic on an error, else fill the table and return
\* to the event loop
RT_Return(t) ==
    /\ pc[t] = "gc_ret" /\ op[t] = "refreshTable" /\ ~Crashed
    /\ IF err[t] # "nil"
       THEN /\ pc' = [pc EXCEPT ![t] = "panic"]
            /\ UNCHANGED << op, gcLocals >>
       ELSE /\ pc' = [pc EXCEPT ![t] = "idle"]
            /\ op' = [op EXCEPT ![t] = None]
            /\ ResetLocals(t)
    /\ UNCHANGED << shared, gbLocals, history >>
    /\ UNCHANGED pure

refreshTable(t) == RT_Call(t) \/ RT_Return(t)

\* ------------------------------------------------------------------ GetContainerByID

GB_Call(t) ==
    /\ pc[t] = "idle" /\ ~Crashed
    /\ \E p \in PidArgs : pid' = [pid EXCEPT ![t] = p]
    /\ op' = [op EXCEPT ![t] = "getByID"]
    /\ pc' = [pc EXCEPT ![t] = "gb_rlock"]
    /\ UNCHANGED << shared, gcLocals, container, exists, ret, history >>
    /\ UNCHANGED pure

\* line 110
GB_RLock(t) ==
    /\ pc[t] = "gb_rlock" /\ ~Crashed
    /\ CanRLock
    /\ cacheMutex' = [cacheMutex EXCEPT !.readers = @ \cup {t}]
    /\ pc' = [pc EXCEPT ![t] = "gb_read"]
    /\ UNCHANGED << containerCache, sinceRefreshed, tickC, runc, op, gcLocals,
                    gbLocals, history >>
    /\ UNCHANGED pure

\* lines 111-112
GB_Read(t) ==
    /\ pc[t] = "gb_read" /\ ~Crashed
    /\ exists' = [exists EXCEPT ![t] = pid[t] \in DOMAIN containerCache]
    /\ container' = [container EXCEPT ![t] =
                        IF pid[t] \in DOMAIN containerCache
                        THEN containerCache[pid[t]] ELSE ZeroContainer]
    /\ cacheMutex' = [cacheMutex EXCEPT !.readers = @ \ {t}]
    /\ pc' = [pc EXCEPT ![t] = "gb_check"]
    /\ UNCHANGED << containerCache, sinceRefreshed, tickC, runc, op, gcLocals, pid,
                    ret, history >>
    /\ UNCHANGED pure

\* a fast path that uses the listing's threshold
ServeCachedShort(found, age) == found /\ age < ListFresh

\* line 115: the fast path's condition
ServeCached(found, age) == found /\ age < GetFresh

\* lines 115-124: lastRefreshed is read without the lock
GB_Check(t) ==
    /\ pc[t] = "gb_check" /\ ~Crashed
    /\ \E age \in ReadLastRefreshed(t) :
          IF ServeCached(exists[t], age)
          THEN /\ ret' = [ret EXCEPT ![t] = container[t]]
               /\ pc' = [pc EXCEPT ![t] = "done"]
               /\ UNCHANGED gcLocals
          ELSE IF ~Atoi(pid[t]).ok
          THEN /\ ret' = [ret EXCEPT ![t] = ZeroContainer]
               /\ err' = [err EXCEPT ![t] = "invalid PID format"]
               /\ pc' = [pc EXCEPT ![t] = "done"]
               /\ UNCHANGED << populate, containers, idx, disc, wrote, asmFailed >>
          ELSE /\ CallGetContainers(t, FALSE)
               /\ UNCHANGED << ret, disc >>
    /\ UNCHANGED << shared, op, pid, container, exists, history >>
    /\ UNCHANGED pure

\* the indexes of the records the search loop's test accepts
Matches(t) == { i \in 1..Len(containers[t]) : containers[t][i].PID = Atoi(pid[t]).n }

\* lines 125-131 and 138: GetContainers has returned; the search loop
GB_Return(t) ==
    /\ pc[t] = "gc_ret" /\ op[t] = "getByID" /\ ~Crashed
    /\ IF err[t] # "nil"
       THEN /\ pc' = [pc EXCEPT ![t] = "done"]
            /\ UNCHANGED idx
       ELSE IF Matches(t) # {}
       THEN /\ idx' = [idx EXCEPT ![t] = CHOOSE i \in Matches(t) : \A j \in Matches(t) : i <= j]
            /\ pc' = [pc EXCEPT ![t] = "gb_populate"]
       ELSE /\ idx' = [idx EXCEPT ![t] = 0]
            /\ pc' = [pc EXCEPT ![t] = "gb_lock"]
    /\ UNCHANGED << shared, op, populate, containers, err, disc, wrote, asmFailed,
                    gbLocals, history >>
    /\ UNCHANGED pure

\* a lookup that hands back the record as the failed Assembler left it
GB_PopulateReturningPartial(t) ==
    /\ pc[t] = "gb_populate" /\ ~Crashed
    /\ \E failAt \in {0} \cup FailPoints :
          LET r == PopulateContainer(containers[t][idx[t]], failAt)
          IN /\ ret' = [ret EXCEPT ![t] = r.c]
             /\ err' = [err EXCEPT ![t] =
                           IF r.err = "nil" THEN @ ELSE "failed to populate container"]
    /\ pc' = [pc EXCEPT ![t] = "done"]
    /\ UNCHANGED << shared, op, populate, containers, idx, disc, wrote, asmFailed,
                    pid, container, exists, history >>
    /\ UNCHANGED pure

\* lines 132-136: the Assembler on the one record found
GB_Populate(t) ==
    /\ pc[t] = "gb_populate" /\ ~Crashed
    /\ \E failAt \in {0} \cup FailPoints :
          LET r == PopulateContainer(containers[t][idx[t]], failAt)
          IN IF r.err = "nil"
             THEN /\ ret' = [ret EXCEPT ![t] = r.c]
                  /\ UNCHANGED err
             ELSE /\ ret' = [ret EXCEPT ![t] = ZeroContainer]
                  /\ err' = [err EXCEPT ![t] = "failed to populate container"]
    /\ pc' = [pc EXCEPT ![t] = "done"]
    /\ UNCHANGED << shared, op, populate, containers, idx, disc, wrote, asmFailed,
                    pid, container, exists, history >>
    /\ UNCHANGED pure

\* line 141
GB_Lock(t) ==
    /\ pc[t] = "gb_lock" /\ ~Crashed
    /\ CanLock
    /\ cacheMutex' = [cacheMutex EXCEPT !.writer = t]
    /\ pc' = [pc EXCEPT ![t] = "gb_write"]
    /\ UNCHANGED << containerCache, sinceRefreshed, tickC, runc, op, gcLocals,
                    gbLocals, history >>
    /\ UNCHANGED pure

\* lines 142-146: container is the variable of line 111
GB_Write(t) ==
    /\ pc[t] = "gb_write" /\ ~Crashed
    /\ containerCache' = MapPut(containerCache, pid[t], container[t])
    /\ sinceRefreshed' = 0
    /\ cacheMutex' = [cacheMutex EXCEPT !.writer = None]
    /\ ret' = [ret EXCEPT ![t] = container[t]]
    /\ pc' = [pc EXCEPT ![t] = "done"]
    /\ committed' = containerCache'
    /\ UNCHANGED << tickC, runc, op, gcLocals, pid, container, exists, sinceDisc,
                    discOk >>
    /\ UNCHANGED pure

GetContainerByID(t) ==
    \/ GB_Call(t) \/ GB_RLock(t) \/ GB_Read(t) \/ GB_Check(t) \/ GB_Return(t)
    \/ GB_Populate(t) \/ GB_Lock(t) \/ GB_Write(t)

\* GetContainerByID has returned to its caller
Finish(t) ==
    /\ pc[t] = "done"
    /\ pc' = [pc EXCEPT ![t] = "idle"]
    /\ op' = [op EXCEPT ![t] = None]
    /\ ResetLocals(t)
    /\ pid' = [pid EXCEPT ![t] = << >>]
    /\ container' = [container EXCEPT ![t] = ZeroContainer]
    /\ exists' = [exists EXCEPT ![t] = FALSE]
    /\ ret' = [ret EXCEPT ![t] = ZeroContainer]
    /\ UNCHANGED << shared, history >>
    /\ UNCHANGED pure

\* ------------------------------------------------------------------ the specification

Next ==
    \/ Advance
    \/ EnvChange
    \/ StartCacheRefresh
    \/ \E t \in Tasks : GetContainers(t)
    \/ \E t \in Callers : refreshTable(t) \/ GetContainerByID(t) \/ Finish(t)

Spec == Init /\ [][Next]_vars

\* the periodic refresher alone, the UI never acting
RefresherNext == StartCacheRefresh \/ GetContainers(Refresher)

NextAuto == Advance \/ EnvChange \/ RefresherNext

\* time passes, and the refresher goroutine is scheduled: it receives a pending
\* tick, its external calls return, it gets the lock it waits for
FairSpec == Init /\ [][NextAuto]_vars /\ WF_vars(Advance) /\ WF_vars(RefresherNext)

\* ------------------------------------------------------------------ PopulateContainer alone

\* the inputs of one PopulateContainer call: the record it is called on, and
\* the adapters that would return an error if they were invoked
AsmInputs ==
    [c : { BareContainer(p, s) : p \in Pids, s \in Statuses },
     fails : SUBSET (1..Len(Adapters))]

\* an Assembler that runs every adapter and reports the first error afterwards
RunAdaptersToTheEnd(c, i, fails, calls) ==
    LET rest == i..Len(Adapters)
        bad == rest \cap fails
    IN [c |-> [c EXCEPT !.fields = @ \cup { Adapters[j] : j \in rest \ fails }],
        err |-> IF bad = {} THEN "nil"
                ELSE AdapterError[CHOOSE j \in bad : \A k \in bad : j <= k],
        calls |-> calls \o [j \in 1..(Len(Adapters) - i + 1) |-> Adapters[i + j - 1]]]

RECURSIVE RunAdapters(_, _, _, _)
\* lines 204-244 from adapter number i on: the adapter is invoked; its error
\* ends the call, its success fills the field and the next adapter follows.
\* calls lists the adapters invoked so far.
RunAdapters(c, i, fails, calls) ==
    IF i > Len(Adapters) THEN [c |-> c, err |-> "nil", calls |-> calls]
    ELSE IF i \in fails
    THEN [c |-> c, err |-> AdapterError[i], calls |-> Append(calls, Adapters[i])]
    ELSE RunAdapters([c EXCEPT !.fields = @ \cup {Adapters[i]}], i + 1, fails,
                     Append(calls, Adapters[i]))

\* the call is made
AsmRun ==
    /\ ~asm.done
    /\ asm' = [asm EXCEPT !.done = TRUE,
                          !.out = RunAdapters(asm.in.c, 1, asm.in.fails, << >>)]
    /\ UNCHANGED << shared, pc, op, gcLocals, gbLocals, history, lsof, netdev >>

AsmInit ==
    /\ InitCache
    /\ asm \in { [in |-> x, done |-> FALSE, out |-> << >>] : x \in AsmInputs }
    /\ lsof = Idle
    /\ netdev = Idle

AsmNext == AsmRun

AsmSpec == AsmInit /\ [][AsmNext]_vars

\* ------------------------------------------------------------------ getOpenFiles' parser alone

\* the most lines in an lsof output of the model
MaxLsofLines == 4

\* the lines an lsof -F output is drawn from, as characters: an empty line, a
\* line of one character, process lines, field lines, a line of an unknown tag
LsofLines ==
    { << >>, << "p" >>, << "p", "1" >>, << "p", "2" >>, << "c", "a" >>,
      << "c", "b" >>, << "n", "/", "x" >>, << "z", "q" >> }

LsofInputs == UNION { [1..n -> LsofLines] : n \in 0..MaxLsofLines }

RECURSIVE JoinLines(_)
\* the text whose lines are ls: a newline between each two
JoinLines(ls) ==
    IF ls = << >> THEN << >>
    ELSE IF Len(ls) = 1 THEN ls[1]
    ELSE ls[1] \o << "\n" >> \o JoinLines(Tail(ls))

RECURSIVE Split(_, _)
\* strings.Split(s, sep) for a separator of one character
Split(s, sep) ==
    IF \A i \in 1..Len(s) : s[i] # sep THEN << s >>
    ELSE LET i == CHOOSE j \in 1..Len(s) : s[j] = sep /\ \A k \in 1..(j - 1) : s[k] # sep
         IN << SubSeq(s, 1, i - 1) >> \o Split(SubSeq(s, i + 1, Len(s)), sep)

\* LsofOutput{}: every field the empty string
ZeroLsof ==
    [Command |-> << >>, PID |-> << >>, User |-> << >>, FD |-> << >>, Type |-> << >>,
     Device |-> << >>, SizeOff |-> << >>, Node |-> << >>, Name |-> << >>]

\* lines 424-439: the field each tag character is stored in
LsofField ==
    [tag \in {"c", "u", "f", "t", "D", "s", "i", "n"} |->
        CASE tag = "c" -> "Command"
          [] tag = "u" -> "User"
          [] tag = "f" -> "FD"
          [] tag = "t" -> "Type"
          [] tag = "D" -> "Device"
          [] tag = "s" -> "SizeOff"
          [] tag = "i" -> "Node"
          [] tag = "n" -> "Name"]

\* a parser that starts the next record from the fields of the one before
LsofStepCarrying(st, line) ==
    IF Len(line) > 1
    THEN IF line[1] = "p"
         THEN [entries |-> IF st.entry.PID # << >>
                           THEN Append(st.entries, st.entry) ELSE st.entries,
               entry |-> [st.entry EXCEPT !.PID = Tail(line)]]
         ELSE IF line[1] \in DOMAIN LsofField
         THEN [st EXCEPT !.entry[LsofField[line[1]]] = Tail(line)]
         ELSE st
    ELSE st

\* lines 416-441: one iteration of the loop over the lines
LsofStep(st, line) ==
    IF Len(line) > 1
    THEN IF line[1] = "p"
         THEN IF st.entry.PID # << >>
              THEN [entries |-> Append(st.entries, st.entry),
                    entry |-> [ZeroLsof EXCEPT !.PID = Tail(line)]]
              ELSE [st EXCEPT !.entry.PID = Tail(line)]
         ELSE IF line[1] \in DOMAIN LsofField
         THEN [st EXCEPT !.entry[LsofField[line[1]]] = Tail(line)]
         ELSE st
    ELSE st

RECURSIVE LsofLoop(_, _)
LsofLoop(st, lines) ==
    IF lines = << >> THEN st ELSE LsofLoop(LsofStep(st, Head(lines)), Tail(lines))

\* lines 412-447: split, loop, flush of the last record
ParseLsof(out) ==
    LET st == LsofLoop([entries |-> << >>, entry |-> ZeroLsof], Split(out, "\n"))
    IN IF st.entry.PID # << >> THEN Append(st.entries, st.entry) ELSE st.entries

\* the parser runs on the output
LsofRun ==
    /\ ~lsof.done
    /\ lsof' = [lsof EXCEPT !.done = TRUE, !.out = ParseLsof(JoinLines(lsof.in))]
    /\ UNCHANGED << shared, pc, op, gcLocals, gbLocals, history, asm, netdev >>

LsofInit ==
    /\ InitCache
    /\ lsof \in { [in |-> x, done |-> FALSE, out |-> << >>] : x \in LsofInputs }
    /\ asm = Idle
    /\ netdev = Idle

LsofNext == LsofRun

LsofSpec == LsofInit /\ [][LsofNext]_vars

\* ------------------------------------------------------------------ getContainerNetworkUsage's parser alone

\* the most lines in a /proc/<pid>/net/dev of the model
MaxNetLines == 3

\* a column that holds the number n, and one that holds the word w
Num(n) == [num |-> TRUE, n |-> n, w |-> Itoa(n)]
Word(w) == [num |-> FALSE, n |-> 0, w |-> w]

\* the lines a net/dev file is drawn from: the spaces before the first column,
\* the spaces between columns, and the columns. The two header lines, an
\* interface line of 17 columns, one of exactly 11, one of only 10, one whose
\* tenth column is no number, and an empty line.
NetLines ==
    { [lead |-> 0, gap |-> 1,
       cols |-> << Word(<< "I", "-", "|" >>), Word(<< "R" >>), Word(<< "|" >>),
                   Word(<< "T" >>) >>],
      [lead |-> 1, gap |-> 1,
       cols |-> [i \in 1..16 |-> Word(IF i = 2 \/ i = 9 THEN << "|", "b" >> ELSE << "f" >>)]],
      [lead |-> 2, gap |-> 2,
       cols |-> [i \in 1..17 |-> IF i = 1 THEN Word(<< "l", "o", ":" >>) ELSE Num(i + 5)]],
      [lead |-> 0, gap |-> 1,
       cols |-> [i \in 1..11 |-> IF i = 1 THEN Word(<< "e", "0", ":" >>) ELSE Num(10 * i)]],
      [lead |-> 1, gap |-> 1,
       cols |-> [i \in 1..10 |-> IF i = 1 THEN Word(<< "s", ":" >>) ELSE Num(i)]],
      [lead |-> 1, gap |-> 1,
       cols |-> [i \in 1..11 |-> IF i = 1 THEN Word(<< "t", ":" >>)
                                 ELSE IF i = 10 THEN Word(<< "-" >>) ELSE Num(3)]],
      [lead |-> 0, gap |-> 1, cols |-> << >>] }

NetInputs == UNION { [1..n -> NetLines] : n \in 0..MaxNetLines }

Spaces(n) == [i \in 1..n |-> " "]

RECURSIVE JoinCols(_, _)
JoinCols(cols, gap) ==
    IF cols = << >> THEN << >>
    ELSE IF Len(cols) = 1 THEN cols[1].w
    ELSE cols[1].w \o Spaces(gap) \o JoinCols(Tail(cols), gap)

\* the text of a line of the file
Render(l) == Spaces(l.lead) \o JoinCols(l.cols, l.gap)

\* the file's content
NetContent(ls) == JoinLines([i \in 1..Len(ls) |-> Render(ls[i])])

\* unicode.IsSpace on the characters that occur
IsSpace(ch) == ch \in {" ", "\t", "\n", "\r"}

RECURSIVE Fields(_)
\* strings.Fields: the maximal runs of characters that are no white space
Fields(s) ==
    IF s = << >> THEN << >>
    ELSE IF IsSpace(s[1]) THEN Fields(Tail(s))
    ELSE LET n == CHOOSE k \in 1..Len(s) :
                     /\ \A j \in 1..k : ~IsSpace(s[j])
                     /\ k = Len(s) \/ IsSpace(s[k + 1])
         IN << SubSeq(s, 1, n) >> \o Fields(SubSeq(s, n + 1, Len(s)))

\* a parser that adds the received bytes before it has parsed the transmitted
NetStepCountingHalf(tot, line) ==
    LET fields == Fields(line)
    IN IF Len(fields) > 10
       THEN LET r == Atoi(fields[2])
                x == Atoi(fields[10])
            IN IF ~r.ok THEN tot
               ELSE [ReceivedBytes |-> tot.ReceivedBytes + r.n,
                     TransmittedBytes |-> tot.TransmittedBytes + (IF x.ok THEN x.n ELSE 0)]
       ELSE tot

\* lines 463-478: one iteration of the loop; fields[1] and fields[9] of the
\* code are the second and the tenth field
NetStep(tot, line) ==
    LET fields == Fields(line)
    IN IF Len(fields) > 10
       THEN LET r == Atoi(fields[2])
                x == Atoi(fields[10])
            IN IF ~r.ok THEN tot
               ELSE IF ~x.ok THEN tot
               ELSE [ReceivedBytes |-> tot.ReceivedBytes + r.n,
                     TransmittedBytes |-> tot.TransmittedBytes + x.n]
       ELSE tot

RECURSIVE NetLoop(_, _)
NetLoop(tot, lines) ==
    IF lines = << >> THEN tot ELSE NetLoop(NetStep(tot, Head(lines)), Tail(lines))

\* lines 458-484
ParseNetDev(content) ==
    NetLoop([ReceivedBytes |-> 0, TransmittedBytes |-> 0], Split(content, "\n"))

\* the parser runs on the file
NetRun ==
    /\ ~netdev.done
    /\ netdev' = [netdev EXCEPT !.done = TRUE,
                                !.out = ParseNetDev(NetContent(netdev.in))]
    /\ UNCHANGED << shared, pc, op, gcLocals, gbLocals, history, asm, lsof >>

NetInit ==
    /\ InitCache
    /\ netdev \in { [in |-> x, done |-> FALSE, out |-> << >>] : x \in NetInputs }
    /\ asm = Idle
    /\ lsof = Idle

NetNext == NetRun

NetSpec == NetInit /\ [][NetNext]_vars

\* ------------------------------------------------------------------ properties

\* a task is inside an external invocation: the runc listing, or the adapters
\* of PopulateContainer
InExternalCall(t) == pc[t] \in {"gc_runc", "gc_populate", "gb_populate"}

\* the pid strings of the records of a slice
KeysOf(cs) == { Itoa(cs[i].PID) : i \in 1..Len(cs) }

\* the enrichment fields of a record are all absent or all present
AllOrNone(c) == c.fields = {} \/ c.fields = AllFields

\* every container the runtime lists has an entry in the cache
UpToDate == \A p \in DOMAIN runc : Itoa(p) \in DOMAIN containerCache

\* a call returns an error it did not have before
Failure == \E t \in Tasks : err[t] = "nil" /\ err'[t] # "nil"

\* C1: when refreshTable's GetContainers(true) has returned, that call has run
\* exactly one Discovery (one runc invocation), whatever the age of the cache was.
C1_ForceRefreshDiscovers ==
    \A t \in Callers :
        (pc[t] = "gc_ret" /\ op[t] = "refreshTable") => disc[t] = 1

\* C2: when a tick's GetContainers(true) has returned and the refresher goes on
\* to write the cache, the tick has run one Discovery.
C2_TickDiscovers ==
    pc[Refresher] \in {"gc_ret", "tk_lock", "tk_merge"} => disc[Refresher] = 1

C4_SecondCallNoDiscovery ==
    [][\A t \in Tasks :
          (pc[t] = "gc_check" /\ pc'[t] = "gc_runc") => sinceDisc >= ListFresh]_vars

\* C4 amended: a GetContainers call made less than ListFresh after a call that
\* ran a Discovery and returned without an error does not run a Discovery.
C4_SecondCallAfterSuccess ==
    [][\A t \in Tasks :
          (pc[t] = "gc_check" /\ pc'[t] = "gc_runc")
             => (sinceDisc >= ListFresh \/ ~discOk)]_vars

\* C4 witness: one ticker period after a successful discovering call, a second
\* call has passed the freshness test and is on the fast path.
C4_Witness ==
    \E t \in Tasks :
        /\ pc[t] = "gc_rlock" /\ disc[t] = 0
        /\ discOk /\ sinceDisc = TickInterval

\* C5: GetContainerByID at its freshness test, having found the key in the
\* cache, with less than GetFresh since the last refresh: it returns the entry
\* it read, with no error, and has run no Discovery.
C5_FreshGetServesCache ==
    [][\A t \in Callers :
          (/\ pc[t] = "gb_check" /\ pc'[t] # "gb_check"
           /\ exists[t] /\ sinceRefreshed < GetFresh)
             => /\ pc'[t] = "done"
                /\ ret'[t] = container[t]
                /\ err'[t] = "nil"
                /\ disc'[t] = 0]_vars

\* C5 witness: a lookup has found its key and is at the freshness test between
\* the two thresholds.
C5_Witness ==
    \E t \in Callers :
        /\ pc[t] = "gb_check" /\ exists[t] /\ container[t].PID # 0
        /\ sinceRefreshed >= ListFresh /\ sinceRefreshed < GetFresh

\* C6: when PopulateContainer has failed for a record in a GetContainers call,
\* the call returns an error and no list, and it has written neither the cache
\* map nor the timestamp.
C6_AssemblerFailureAborts ==
    \A t \in Tasks :
        asmFailed[t] => /\ pc[t] \in {"gc_ret", "panic"}
                        /\ err[t] # "nil"
                        /\ containers[t] = << >>
                        /\ ~wrote[t]

\* C6 witness: the Assembler succeeded for the first record and failed for the
\* second, with earlier data in the cache.
C6_Witness ==
    \E t \in Tasks :
        /\ asmFailed[t] /\ idx[t] = 2 /\ pc[t] = "gc_ret"
        /\ containerCache # EmptyMap /\ committed = containerCache

\* C7: the snapshot a List call returns is the cache as the last completed
\* locked write left it: never the map of a write in progress.
C7_NoTornSnapshot ==
    [][\A t \in Tasks :
          (pc[t] = "gc_copy" /\ pc'[t] = "gc_ret")
             => containers'[t] = Values(committed)]_vars

\* C7 witness: a List call waits for the read lock while a writer has the map
\* half-updated.
C7_Witness ==
    \E t \in Tasks :
        /\ pc[t] = "gc_rlock"
        /\ cacheMutex.writer \notin {None, t}
        /\ containerCache # committed

\* C8: a task inside an external invocation holds the lock neither exclusively
\* nor shared.
C8_NoLockAcrossExternalCall ==
    \A t \in Tasks :
        InExternalCall(t) => (cacheMutex.writer # t /\ t \notin cacheMutex.readers)

\* C8 witness: a task is inside an external invocation while another task
\* holds the exclusive lock.
C8_Witness ==
    \E t \in Tasks :
        InExternalCall(t) /\ cacheMutex.writer \notin {None, t}

\* C9: unless containers keep changing or calls keep failing, the periodic
\* refresher brings every listed container into the cache again and again.
C9_EventuallyUpToDate ==
    \/ []<><<EnvChange>>_vars
    \/ []<><<Failure>>_vars
    \/ []<>UpToDate

\* C10: every record in the cache, in a list GetContainers returns without an
\* error and returned by GetContainerByID has all its enrichment fields or none.
C10_AllOrNothing ==
    /\ \A k \in DOMAIN containerCache : AllOrNone(containerCache[k])
    /\ \A t \in Tasks :
          /\ (pc[t] = "gc_ret" /\ err[t] = "nil")
                => \A i \in 1..Len(containers[t]) : AllOrNone(containers[t][i])
          /\ pc[t] = "done" => AllOrNone(ret[t])

\* C10 witness: PopulateContainer has failed part-way, after it filled some
\* fields, while the cache holds enriched records.
C10_Witness ==
    \E t \in Tasks :
        /\ pc[t] = "gc_ret"
        /\ \E k \in FailPoints : k > 1 /\ err[t] = AdapterError[k]
        /\ \E key \in DOMAIN containerCache : containerCache[key].fields = AllFields

\* C11: the write of a GetContainers call that ran a successful pass leaves
\* the cache with exactly the pid strings of the discovered records as keys,
\* each holding the record of this pass, and resets the timestamp.
C11_ListReplacesCache ==
    [][\A t \in Tasks :
          (pc[t] = "gc_write" /\ pc'[t] = "gc_ret")
             => /\ DOMAIN containerCache' = KeysOf(containers[t])
                /\ \A i \in 1..Len(containers[t]) :
                      containerCache'[Itoa(containers[t][i].PID)] = containers[t][i]
                /\ containers'[t] = containers[t]
                /\ err'[t] = "nil"
                /\ sinceRefreshed' = 0]_vars

\* C11 witness: a pass is about to write while the cache of the earlier pass
\* had a key this pass did not discover and a different record for a pid it did.
C11_Witness ==
    \E t \in Tasks :
        /\ pc[t] = "gc_write"
        /\ \E k \in DOMAIN committed : k \notin KeysOf(containers[t])
        /\ \E i \in 1..Len(containers[t]) :
              /\ Itoa(containers[t][i].PID) \in DOMAIN committed
              /\ committed[Itoa(containers[t][i].PID)] # containers[t][i]

\* C12: a GetContainerByID call that did not take its fast path has run one
\* Discovery when it returns, and returns an error or the enriched record of
\* the requested pid.
C12_SlowPathDiscovers ==
    [][\A t \in Callers :
          (/\ op[t] = "getByID"
           /\ pc[t] \in {"gc_ret", "gb_populate", "gb_write"}
           /\ pc'[t] = "done")
             => /\ disc'[t] = 1
                /\ \/ err'[t] # "nil"
                   \/ /\ ret'[t].PID = Atoi(pid[t]).n
                      /\ ret'[t].fields = AllFields]_vars

\* C13: no goroutine panics: a failed GetContainers call never ends the process.
C13_FailedFetchNoCrash ==
    \A t \in Tasks : pc[t] # "panic"

\* the tick's GetContainers call has returned an error to the refresher
TickFailed == pc[Refresher] = "gc_ret" /\ err[Refresher] # "nil"

\* C14: a tick whose GetContainers call failed has written neither the map nor
\* the timestamp, the refresher's next step takes it back to its select with
\* the cache, the timestamp, the lock and every other task untouched, and the
\* refresher calls GetContainers again on a later tick.
C14_FailedTickSkipped ==
    /\ [][(TickFailed /\ pc'[Refresher] # "gc_ret")
             => /\ pc'[Refresher] = "tk_wait"
                /\ ~wrote[Refresher]
                /\ containerCache' = containerCache
                /\ sinceRefreshed' = sinceRefreshed
                /\ cacheMutex' = cacheMutex
                /\ \A t \in Callers : pc'[t] = pc[t] /\ err'[t] = err[t]]_vars
    /\ (TickFailed ~> pc[Refresher] = "gc_check")

\* C14 witness: a tick has failed in enrichment while the cache holds records.
C14_Witness ==
    /\ TickFailed
    /\ asmFailed[Refresher]
    /\ containerCache # EmptyMap

\* the first adapter of a call that fails, 0 if none does
FirstFailure(fails) ==
    IF fails = {} THEN 0 ELSE CHOOSE j \in fails : \A k \in fails : j <= k

\* C15: PopulateContainer invokes the adapters in the order open files, network
\* usage, mounted volumes, exposed ports, start command, security profiles,
\* environment variables, resource usage, up to and including the first that
\* fails and none after it; its error names that step, each step by a message
\* of its own; with no failure all eight run and the error is nil.
C15_AdaptersInOrderFailFast ==
    asm.done =>
        LET k == FirstFailure(asm.in.fails)
            order == << "OpenFiles", "NetworkUsage", "MountedVolumes", "ExposedPorts",
                        "StartCommand", "SecurityProfiles", "EnvVariables",
                        "ResourceUsage" >>
        IN /\ asm.out.calls = SubSeq(order, 1, IF k = 0 THEN Len(order) ELSE k)
           /\ asm.out.err = (IF k = 0 THEN "nil" ELSE AdapterError[k])
           /\ \A i, j \in 1..Len(AdapterError) :
                 AdapterError[i] = AdapterError[j] => i = j
           /\ [c |-> asm.out.c, err |-> asm.out.err] = PopulateContainer(asm.in.c, k)

\* C15 witness: a call in which the third adapter failed and the sixth would
\* have failed too.
C15_Witness ==
    /\ asm.done
    /\ FirstFailure(asm.in.fails) = 3
    /\ 6 \in asm.in.fails

\* the errors of Discovery
RuncErrors == RuncOutcomes \ {"ok"}

TickInFlight == pc[Refresher] # "tk_wait"

\* C17: the refresher takes a tick from the ticker only when no refresh of its
\* own is in flight, and that is the only way one of its refreshes begins: the
\* one before has returned, released the lock and left no locals behind.
C17_OneRefreshAtATime ==
    [][/\ (tickC /\ ~tickC')
             => /\ ~TickInFlight
                /\ pc'[Refresher] = "gc_check"
                /\ cacheMutex.writer # Refresher
                /\ Refresher \notin cacheMutex.readers
                /\ containers[Refresher] = << >>
                /\ ~wrote[Refresher]
       /\ (~TickInFlight /\ TickInFlight') => (tickC /\ ~tickC')]_vars

\* C17 witness: the next tick is already in the channel while the refresher
\* holds the lock for the merge of the tick before.
C17_Witness ==
    /\ tickC
    /\ pc[Refresher] = "tk_merge"
    /\ cacheMutex.writer = Refresher

\* the lines the parser does not skip
Counted(lines) == { i \in 1..Len(lines) : Len(lines[i]) > 1 }

\* the lines that open a group
GroupStarts(lines) == { i \in Counted(lines) : lines[i][1] = "p" }

\* the line that opens group number g
GroupStart(lines, g) ==
    CHOOSE i \in GroupStarts(lines) :
        Cardinality({ j \in GroupStarts(lines) : j <= i }) = g

\* the lines of group g that carry tag
GroupLines(lines, g, tag) ==
    { i \in Counted(lines) :
        /\ lines[i][1] = tag
        /\ i > GroupStart(lines, g)
        /\ \A j \in GroupStarts(lines) : j > GroupStart(lines, g) => i < j }

\* what group g holds under tag: the value of its last line of that tag
GroupValue(lines, g, tag) ==
    LET S == GroupLines(lines, g, tag)
    IN IF S = {} THEN << >>
       ELSE Tail(lines[CHOOSE i \in S : \A j \in S : j <= i])

\* a well-formed block: no field line comes before the first process line
WellFormedLsof(lines) ==
    \A i \in Counted(lines) :
        lines[i][1] \in DOMAIN LsofField => \E j \in GroupStarts(lines) : j < i

\* C18: on a well-formed lsof block the parser returns one record per p line,
\* in order, the last group included; a record's PID is its p line's value and
\* every other field is what its own group holds under the field's tag, empty
\* if the group has no such line; lines of length 0 or 1 count for nothing.
C18_LsofOneRecordPerGroup ==
    (lsof.done /\ WellFormedLsof(lsof.in)) =>
        /\ Len(lsof.out) = Cardinality(GroupStarts(lsof.in))
        /\ \A g \in 1..Len(lsof.out) :
              /\ lsof.out[g].PID = Tail(lsof.in[GroupStart(lsof.in, g)])
              /\ \A tag \in DOMAIN LsofField :
                    lsof.out[g][LsofField[tag]] = GroupValue(lsof.in, g, tag)

\* C18 witness: a well-formed block of two groups, the first with a command
\* line and the second without, has been parsed.
C18_Witness ==
    /\ lsof.done
    /\ WellFormedLsof(lsof.in)
    /\ Cardinality(GroupStarts(lsof.in)) = 2
    /\ GroupValue(lsof.in, 1, "c") # << >>
    /\ GroupValue(lsof.in, 2, "c") = << >>
    /\ GroupValue(lsof.in, 2, "n") # << >>

\* a line counts when it has at least 11 columns and its second and tenth
\* column are numbers
NetCounts(l) == Len(l.cols) >= 11 /\ l.cols[2].num /\ l.cols[10].num

RECURSIVE SumColumn(_, _)
\* the sum of column c over the lines that count
SumColumn(ls, c) ==
    IF ls = << >> THEN 0
    ELSE (IF NetCounts(Head(ls)) THEN Head(ls).cols[c].n ELSE 0) + SumColumn(Tail(ls), c)

\* C19: the parser returns as received and transmitted bytes the sums of
\* column 2 and column 10 over the lines that have at least 11 columns with
\* numbers in both; lines of fewer columns, header lines and empty lines add
\* nothing to either sum.
C19_NetUsageSums ==
    netdev.done =>
        /\ netdev.out.ReceivedBytes = SumColumn(netdev.in, 2)
        /\ netdev.out.TransmittedBytes = SumColumn(netdev.in, 10)

\* C19 witness: a file of a header line, a line of 10 columns and a line of 11
\* columns has been parsed to the values of the last.
C19_Witness ==
    /\ netdev.done
    /\ Len(netdev.in) = 3
    /\ Len(netdev.in[1].cols) = 16 /\ ~netdev.in[1].cols[2].num
    /\ Len(netdev.in[2].cols) = 10
    /\ Len(netdev.in[3].cols) = 11 /\ NetCounts(netdev.in[3])
    /\ netdev.out = [ReceivedBytes |-> 20, TransmittedBytes |-> 100]

\* C20: every cache entry is stored under the decimal string of its own pid.
C20_KeyIsOwnPid ==
    \A k \in DOMAIN containerCache : Itoa(containerCache[k].PID) = k

\* C21: a GetContainerByID call that returns a nil error returns the record of
\* the requested pid.
C21_ReturnsRequestedPid ==
    \A t \in Callers :
        (pc[t] = "done" /\ op[t] = "getByID" /\ err[t] = "nil")
            => (Atoi(pid[t]).ok /\ ret[t].PID = Atoi(pid[t]).n)

\* C22: every record in the cache carries the enrichment of a successful
\* PopulateContainer call.
C22_CacheHoldsEnrichedRecords ==
    \A k \in DOMAIN containerCache : containerCache[k].fields = AllFields

\* C23: a task that completes a locked write, and with it sets the timestamp,
\* has run a Discovery in the operation it is in, and that returned no error.
C23_TimestampOnlyAfterDiscovery ==
    [][\A t \in Tasks :
          (cacheMutex.writer = t /\ cacheMutex'.writer # t /\ sinceRefreshed' = 0)
             => (disc[t] = 1 /\ err[t] = "nil")]_vars

\* C24: no task is at an evaluation of time.Since(lastRefreshed) while another
\* task is inside a locked section that assigns lastRefreshed.
C24_NoReadWhileWriting ==
    \A t \in Tasks :
        pc[t] \in {"gc_check", "gb_check"} => ~ \E w \in Tasks \ {t} : Writing(w)

\* C25: the locked writes of concurrent refreshes take effect one after the
\* other, in the order in which they took the exclusive lock. A write starts
\* from the map the write before it left, the write of a GetContainers call
\* leaves exactly its own records, the merge of a tick leaves its own record
\* under each of its keys and the map of the write before it elsewhere, and the
\* map changes nowhere else: after the last write every key holds the value of
\* the last write to it.
C25_LastWriteWins ==
    [][/\ \A t \in Tasks :
             (pc[t] \in {"gc_lock", "tk_lock"} /\ pc'[t] \in {"gc_write", "tk_merge"})
                => (containerCache = committed /\ cacheMutex.writer = None)
       /\ \A t \in Tasks :
             (pc[t] = "gc_write" /\ pc'[t] # "gc_write")
                => containerCache' = InsertAll(EmptyMap, containers[t])
       /\ (pc[Refresher] = "tk_merge" /\ pc'[Refresher] # "tk_merge")
             => /\ \A i \in 1..Len(containers[Refresher]) :
                      containerCache'[Itoa(containers[Refresher][i].PID)]
                          = containers[Refresher][i]
                /\ \A k \in DOMAIN containerCache' \ KeysOf(containers[Refresher]) :
                      k \in DOMAIN committed /\ containerCache'[k] = committed[k]
                /\ DOMAIN committed \subseteq DOMAIN containerCache'
       /\ (cacheMutex.writer = None /\ cacheMutex'.writer = None)
             => containerCache' = containerCache]_vars

\* C25 witness: two refreshes that each ran a Discovery overlap. The refresher
\* has written its listing, the one runc gives now, and waits for the lock to
\* merge it; the foreground call holds the lock and is about to write a
\* different listing, one that runc no longer gives.
C25_Witness ==
    \E t \in Callers :
        /\ pc[t] = "gc_write" /\ cacheMutex.writer = t /\ disc[t] = 1
        /\ pc[Refresher] = "tk_lock" /\ disc[Refresher] = 1 /\ wrote[Refresher]
        /\ committed = InsertAll(EmptyMap, containers[Refresher])
        /\ KeysOf(containers[Refresher]) = KeysOf(Decode(runc))
        /\ KeysOf(containers[t]) # KeysOf(containers[Refresher])

====
